---------------------------- MODULE Spec2Model ----------------------------
(***************************************************************************)
(* The blink programs of CompactArduino: the two main() programs of        *)
(* blink_162_0.ino and the seven programs of the tutorial text, run on     *)
(* mocked DDRB / PORTB registers and a mocked delay primitive.             *)
(*                                                                         *)
(* A "slot" is one device: its own DDRB and PORTB, the program loaded on   *)
(* it, the position of that program, and the record of what it did.        *)
(*   Spec        one device running a main() program, forever              *)
(*   FairSpec    the same, the processor never stops stepping              *)
(*   SpecHarness two devices started from the same register contents,      *)
(*               each observed for its first MaxObs events                 *)
(***************************************************************************)
EXTENDS Integers, Sequences, FiniteSets

VARIABLES prog, DDRB, PORTB, pc, log, ddrWrites, boot

vars == <<prog, DDRB, PORTB, pc, log, ddrWrites, boot>>

---------------------------------------------------------------------------
(* Bounds *)

\* number of events (register writes, delays) a device's record keeps
MaxObs == 5

---------------------------------------------------------------------------
(* The hardware: 8-bit registers, bit operations *)

RegBits == 8

Byte == 0 .. (2^RegBits - 1)

\* bit number of the LED pin in port B, <avr/io.h>
PB5 == 5

\* 1 << n
Shl(x, n) == x * 2^n

\* (changed) the ~ left out
ComplLeftOut(x) == x

\* ~x on a C int
Compl(x) == (-x) - 1

\* a C int stored into an 8-bit register
Trunc8(x) == x % (2^RegBits)

Bit(x, i) == (Trunc8(x) \div 2^i) % 2

\* bitwise and of two naturals, bit by bit from the lowest
RECURSIVE AndNat(_, _)
AndNat(x, m) ==
  IF x = 0 \/ m = 0 THEN 0
  ELSE (x % 2) * (m % 2) + 2 * AndNat(x \div 2, m \div 2)

\* x & m, as stored into an 8-bit register
And(x, m) == AndNat(Trunc8(x), Trunc8(m))

\* (changed) reg = m in place of reg |= m
OrAsAssign(x, m) == Trunc8(m)

\* x | m: every bit of either, the common ones counted once
Or(x, m) == Trunc8(x) + Trunc8(m) - And(x, m)

\* (changed) reg |= m in place of reg ^= m
XorAsOr(x, m) == Or(x, m)

\* x ^ m: every bit of either, the common ones dropped
Xor(x, m) == Trunc8(x) + Trunc8(m) - 2 * And(x, m)

\* level of the LED pin: driven by PORTB once DDRB makes it an output
Floating == 2

Pin(ddr, port) == IF Bit(ddr, PB5) = 1 THEN Bit(port, PB5) ELSE Floating

---------------------------------------------------------------------------
(* The programs *)

\* statements: k the kind, a and b the operands as written
StPinMode(pin, mode)     == [k |-> "pinMode", a |-> pin, b |-> mode]
StDigitalWrite(pin, val) == [k |-> "digitalWrite", a |-> pin, b |-> val]
StOr(reg, x)             == [k |-> "|=", a |-> reg, b |-> x]
StAnd(reg, x)            == [k |-> "&=", a |-> reg, b |-> x]
StXor(reg, x)            == [k |-> "^=", a |-> reg, b |-> x]
StDelay(ms)              == [k |-> "delay", a |-> ms, b |-> 0]
StDelayMs(ms)            == [k |-> "_delay_ms", a |-> ms, b |-> 0]

\* const int led = 13;  /  #define LED 13
led == 13

\* the tutorial's sketches (setup() and loop()) and its main() programs
Sketches == {"const_led", "define_LED", "ddrb_digitalWrite",
             "portb_set_clear", "portb_toggle", "toggle_delay_ms"}

MainPrograms == {"main_readme", "main_PB5", "main_5"}

Programs == Sketches \cup MainPrograms

\* body of setup()
SetupBody(v) ==
  IF v \in {"const_led", "define_LED"}
    THEN << StPinMode(led, "OUTPUT") >>
    ELSE << StOr("DDRB", Shl(1, 5)) >>

\* body of loop()
LoopBody(v) ==
  CASE v \in {"const_led", "define_LED", "ddrb_digitalWrite"} ->
         << StDigitalWrite(led, "HIGH"), StDelay(1000),
            StDigitalWrite(led, "LOW"), StDelay(1000) >>
    [] v = "portb_set_clear" ->
         << StOr("PORTB", Shl(1, 5)), StDelay(1000),
            StAnd("PORTB", Compl(Shl(1, 5))), StDelay(1000) >>
    [] v = "portb_toggle" ->
         << StXor("PORTB", Shl(1, 5)), StDelay(1000) >>
    [] v = "toggle_delay_ms" ->
         << StXor("PORTB", Shl(1, 5)), StDelayMs(1000) >>

\* (changed) the symbol naming the neighbouring bit
LedBitNeighbour(v) == IF v = "main_PB5" THEN PB5 + 1 ELSE 5

\* the bit of the LED as each main() writes it: PB5, or the literal 5
LedBit(v) == IF v = "main_PB5" THEN PB5 ELSE 5

\* (changed) the toggle written to DDRB instead of PORTB
MainBodyToggleDDRB(v) ==
  << StOr("DDRB", Shl(1, LedBit(v))),
     StXor("DDRB", Shl(1, LedBit(v))),
     StDelayMs(1000) >>

\* statements of main(): the configuration, then the body of while (1)
MainBody(v) ==
  << StOr("DDRB", Shl(1, LedBit(v))),
     StXor("PORTB", Shl(1, LedBit(v))),
     StDelayMs(1000) >>

\* (changed) while (1) opened before the configuration
LoopStartAtConfig(v) == 1

\* index in MainBody of the first statement inside while (1) { }
LoopStart(v) == 2

\* (changed) a loop condition that is false
WhileCondFalse == 1 - 1

\* the condition of while (1)
WhileCond == 1

\* (changed) a core that runs setup() before every round
CoreCallsSetup(v) == "setup"

\* what the Arduino core calls when setup() or loop() has returned
CoreCalls(v) == "loop"

\* Arduino pin number to bit of port B (pins 8..13 are PB0..PB5)
PinBit(pin) == pin - 8

---------------------------------------------------------------------------
(* Control flow *)

At(ph, i) == [ph |-> ph, i |-> i]

Entry(v) == IF v \in Sketches THEN At("setup", 1) ELSE At("main", 1)

Body(v, ph) ==
  CASE ph = "setup" -> SetupBody(v)
    [] ph = "loop"  -> LoopBody(v)
    [] ph = "main"  -> MainBody(v)

\* device s is running and stands at a statement
AtStmt(s) == s \in DOMAIN pc /\ pc[s].ph \in {"setup", "loop", "main"}

\* device s is running and stands at phase ph
AtPhase(s, ph) == s \in DOMAIN pc /\ pc[s].ph = ph

CurStmt(s) == Body(prog[s], pc[s].ph)[pc[s].i]

\* position after the statement at p has run
Advance(v, p) ==
  CASE p.ph \in {"setup", "loop"} ->
         IF p.i < Len(Body(v, p.ph)) THEN At(p.ph, p.i + 1) ELSE At("core", 0)
    [] p.ph = "main" ->
         IF p.i < LoopStart(v)
           THEN IF p.i + 1 < LoopStart(v) THEN At("main", p.i + 1)
                                          ELSE At("while", 0)
           ELSE IF p.i < Len(MainBody(v)) THEN At("main", p.i + 1)
                                          ELSE At("while", 0)

---------------------------------------------------------------------------
(* The record of a device: its last MaxObs events *)

Record(l, e) == IF Len(l) < MaxObs THEN Append(l, e) ELSE Append(Tail(l), e)

Reg(s, reg) == IF reg = "DDRB" THEN DDRB[s] ELSE PORTB[s]

\* a write of val to register reg by "reg op arg", then on to the next statement
Write(s, reg, op, arg, val) ==
  LET ddr  == IF reg = "DDRB" THEN val ELSE DDRB[s]
      port == IF reg = "PORTB" THEN val ELSE PORTB[s]
  IN  /\ DDRB' = [DDRB EXCEPT ![s] = ddr]
      /\ PORTB' = [PORTB EXCEPT ![s] = port]
      /\ ddrWrites' = [ddrWrites EXCEPT ![s] = IF reg = "DDRB" THEN @ + 1 ELSE @]
      /\ log' = [log EXCEPT ![s] =
                   Record(@, [op |-> op, reg |-> reg, arg |-> arg,
                              val |-> val, pin |-> Pin(ddr, port)])]
      /\ pc' = [pc EXCEPT ![s] = Advance(prog[s], @)]
      /\ UNCHANGED <<prog, boot>>

\* a wait of ms ticks: the pin keeps its level for that long
Wait(s, ms) ==
  /\ log' = [log EXCEPT ![s] =
               Record(@, [op |-> "delay", reg |-> "-", arg |-> ms,
                          val |-> 0, pin |-> Pin(DDRB[s], PORTB[s])])]
  /\ pc' = [pc EXCEPT ![s] = Advance(prog[s], @)]
  /\ UNCHANGED <<prog, boot, DDRB, PORTB, ddrWrites>>

---------------------------------------------------------------------------
(* One action per statement kind *)

\* pinMode(pin, OUTPUT): sets the pin's bit of DDRB
pinMode(s) ==
  /\ AtStmt(s) /\ CurStmt(s).k = "pinMode"
  /\ CurStmt(s).b = "OUTPUT"
  /\ LET m == Shl(1, PinBit(CurStmt(s).a))
     IN  Write(s, "DDRB", "|=", m, Or(DDRB[s], m))

\* digitalWrite(pin, HIGH) sets the pin's bit of PORTB, LOW clears it
digitalWrite(s) ==
  /\ AtStmt(s) /\ CurStmt(s).k = "digitalWrite"
  /\ LET m == Shl(1, PinBit(CurStmt(s).a))
     IN  IF CurStmt(s).b = "HIGH"
           THEN Write(s, "PORTB", "|=", m, Or(PORTB[s], m))
           ELSE Write(s, "PORTB", "&=", Compl(m), And(PORTB[s], Compl(m)))

\* reg |= x
OrAssign(s) ==
  /\ AtStmt(s) /\ CurStmt(s).k = "|="
  /\ LET st == CurStmt(s)
     IN  Write(s, st.a, "|=", st.b, Or(Reg(s, st.a), st.b))

\* reg &= x
AndAssign(s) ==
  /\ AtStmt(s) /\ CurStmt(s).k = "&="
  /\ LET st == CurStmt(s)
     IN  Write(s, st.a, "&=", st.b, And(Reg(s, st.a), st.b))

\* reg ^= x
XorAssign(s) ==
  /\ AtStmt(s) /\ CurStmt(s).k = "^="
  /\ LET st == CurStmt(s)
     IN  Write(s, st.a, "^=", st.b, Xor(Reg(s, st.a), st.b))

\* delay(ms)
delay(s) ==
  /\ AtStmt(s) /\ CurStmt(s).k = "delay"
  /\ Wait(s, CurStmt(s).a)

\* _delay_ms(ms)
delay_ms(s) ==
  /\ AtStmt(s) /\ CurStmt(s).k = "_delay_ms"
  /\ Wait(s, CurStmt(s).a)

\* the Arduino core: setup() once, then loop() again and again
CallLoop(s) ==
  /\ AtPhase(s, "core")
  /\ pc' = [pc EXCEPT ![s] = At(CoreCalls(prog[s]), 1)]
  /\ UNCHANGED <<prog, boot, DDRB, PORTB, ddrWrites, log>>

\* the test of while (1): into the body, or past the loop and out of main()
WhileTest(s) ==
  /\ AtPhase(s, "while")
  /\ pc' = [pc EXCEPT ![s] = IF WhileCond # 0 THEN At("main", LoopStart(prog[s]))
                                              ELSE At("returned", 0)]
  /\ UNCHANGED <<prog, boot, DDRB, PORTB, ddrWrites, log>>

---------------------------------------------------------------------------
(* Specifications *)

\* the devices there may be; Slots are those of this run
Devices == {1, 2}

Slots == DOMAIN prog

\* register contents to start from: the bit of the LED clear or set, in a
\* register otherwise clear, full, or of alternating bits
RegSamples ==
  LET m == Shl(1, PB5)
  IN  {0, m, Trunc8(Compl(m)), 2^RegBits - 1, 85, 170}

\* every content of DDRB, and every content of PORTB, beside the samples
RegSweep == (Byte \X RegSamples) \cup (RegSamples \X Byte)

\* power-up: every device holds the same <<DDRB, PORTB>> and a program
Boot(slots, progs, contents) ==
  \E c \in contents :
    /\ boot = [ddr |-> c[1], port |-> c[2]]
    /\ prog \in [slots -> progs]
    /\ DDRB = [s \in slots |-> c[1]]
    /\ PORTB = [s \in slots |-> c[2]]
    /\ pc = [s \in slots |-> Entry(prog[s])]
    /\ log = [s \in slots |-> << >>]
    /\ ddrWrites = [s \in slots |-> 0]

\* one device running a main() program of blink_162_0.ino
Init == Boot({1}, {"main_PB5", "main_5"}, RegSweep)

Next ==
  \E s \in Devices :
    \/ OrAssign(s)
    \/ XorAssign(s)
    \/ delay_ms(s)
    \/ WhileTest(s)

Spec == Init /\ [][Next]_vars

\* the same, from the sampled contents; the processor executes one
\* instruction after another and never halts
InitSampled == Boot({1}, {"main_PB5", "main_5"}, RegSamples \X RegSamples)

FairSpec == InitSampled /\ [][Next]_vars /\ WF_vars(Next)

InitHarness == Boot({1, 2}, Programs, RegSamples \X RegSamples)

\* the harness watches each device until it has recorded MaxObs events
Observed(s) == s \in DOMAIN log /\ Len(log[s]) < MaxObs

NextHarness ==
  \E s \in Devices :
    \/ Observed(s) /\ pinMode(s)
    \/ Observed(s) /\ digitalWrite(s)
    \/ Observed(s) /\ OrAssign(s)
    \/ Observed(s) /\ AndAssign(s)
    \/ Observed(s) /\ XorAssign(s)
    \/ Observed(s) /\ delay(s)
    \/ Observed(s) /\ delay_ms(s)
    \/ Observed(s) /\ CallLoop(s)
    \/ Observed(s) /\ WhileTest(s)

SpecHarness == InitHarness /\ [][NextHarness]_vars

---------------------------------------------------------------------------
(* Claims about one device running main() *)

LedMask == Shl(1, 5)

IsWrite(st) == st.k \in {"|=", "&=", "^="}

\* events of device s that wrote PORTB
PortEvents(s) == {i \in DOMAIN log[s] : log[s][i].reg = "PORTB"}

InLoop(s) ==
  \/ pc[s].ph \in {"while", "returned"}
  \/ pc[s].ph = "main" /\ pc[s].i >= 2

\* C1: main() writes bit 5 of DDRB exactly once, before the first toggle of
\* PORTB: never more than one direction write, none missing once the loop
\* is entered, and PORTB is only ever written, or about to be written,
\* after that one write.
C1_DirectionOnceBeforeToggle ==
  \A s \in Slots :
    prog[s] \in MainPrograms =>
      /\ ddrWrites[s] <= 1
      /\ InLoop(s) => ddrWrites[s] = 1
      /\ PortEvents(s) # {} => ddrWrites[s] = 1
      /\ (AtStmt(s) /\ IsWrite(CurStmt(s)) /\ CurStmt(s).a = "PORTB")
           => ddrWrites[s] = 1 /\ Bit(DDRB[s], 5) = 1

\* reached: a second toggle is about to happen, the direction written once
C1_Witness ==
  \E s \in Slots :
    /\ prog[s] = "main_PB5"
    /\ Cardinality(PortEvents(s)) >= 1
    /\ AtStmt(s) /\ CurStmt(s).k = "^="
    /\ ddrWrites[s] = 1
    /\ Bit(boot.ddr, 5) = 0

\* the record of device s shows configure, then toggle / pause 1000 in turn,
\* each toggle leaving the level opposite to the one before
C2_WindowOk(s) ==
  /\ \A i \in 1 .. Len(log[s]) - 1 :
       LET e == log[s][i]
           f == log[s][i + 1]
       IN  /\ e.reg = "DDRB" => f.op = "^="
           /\ e.op = "^=" =>
                /\ e.reg = "PORTB" /\ e.arg = LedMask /\ e.pin \in {0, 1}
                /\ f.op = "delay" /\ f.arg = 1000 /\ f.pin = e.pin
           /\ e.op = "delay" =>
                /\ f.op = "^=" /\ f.reg = "PORTB" /\ f.pin = 1 - e.pin
  /\ \A i \in 1 .. Len(log[s]) - 2 :
       log[s][i].op = "^=" =>
         /\ log[s][i + 2].op = "^="
         /\ log[s][i + 2].pin = 1 - log[s][i].pin
  /\ \A i \in 1 .. Len(log[s]) - 4 :
       log[s][i].op = "^=" =>
         /\ log[s][i + 4].op = "^="
         /\ log[s][i + 4].pin = log[s][i].pin
         /\ log[s][i + 1].arg + log[s][i + 3].arg = 2000

LedHigh == \A s \in Slots : Pin(DDRB[s], PORTB[s]) = 1

LedLow == \A s \in Slots : Pin(DDRB[s], PORTB[s]) = 0

\* C2: after the configuration every iteration inverts bit 5 of PORTB once
\* and pauses 1000 ticks: the level is held 1000 ticks between consecutive
\* toggles, consecutive toggles leave opposite levels (a period of 2000),
\* and the LED is high again and again and low again and again.
C2_Alternates ==
  /\ [](\A s \in Slots : C2_WindowOk(s))
  /\ []<>LedHigh
  /\ []<>LedLow

\* reached: three toggles and the two pauses between them are on record
C2_Witness ==
  \E s \in Slots :
    /\ Len(log[s]) >= 5
    /\ log[s][1].op = "^=" /\ log[s][3].op = "^=" /\ log[s][5].op = "^="
    /\ log[s][1].pin = 1 /\ log[s][3].pin = 0 /\ log[s][5].pin = 1
    /\ log[s][2].arg = 1000 /\ log[s][4].arg = 1000

\* one more iteration of while (1) starts
Iteration ==
  \E s \in Devices : WhileTest(s) /\ pc'[s].ph = "main"

\* C4: the loop is unconditionally infinite: main() never returns, a next
\* step is always possible, and another iteration is taken again and again.
C4_LoopNeverEnds ==
  /\ [](\A s \in Slots : pc[s].ph # "returned")
  /\ [](ENABLED Next)
  /\ []<><<Iteration>>_vars

\* reached: back at the loop test after at least two whole iterations
C4_Witness ==
  \E s \in Slots :
    /\ pc[s].ph = "while"
    /\ Cardinality({i \in DOMAIN log[s] : log[s][i].op = "delay"}) >= 2

OtherBits == (0 .. RegBits - 1) \ {5}

\* C9: only bit 5 of DDRB and bit 5 of PORTB ever change: bits 0-4 and 6-7
\* of both registers keep their initial values, whatever these were.
C9_OtherBitsKept ==
  \A s \in Slots : \A i \in OtherBits :
    /\ Bit(DDRB[s], i) = Bit(boot.ddr, i)
    /\ Bit(PORTB[s], i) = Bit(boot.port, i)

\* reached: both registers written, from contents with other bits set and clear
C9_Witness ==
  \E s \in Slots :
    /\ boot.ddr = 85 /\ boot.port = 170
    /\ DDRB[s] # boot.ddr /\ PORTB[s] # boot.port
    /\ Cardinality(PortEvents(s)) >= 2

\* C10: once the configuration has run, bit 5 of DDRB is set in every later
\* state, whatever DDRB held at the start.
C10_DirectionStaysSet ==
  \A s \in Slots :
    (ddrWrites[s] >= 1 \/ InLoop(s)) => Bit(DDRB[s], 5) = 1

\* reached: DDRB started with bit 5 clear, and toggles and pauses followed
C10_Witness ==
  \E s \in Slots :
    /\ Bit(boot.ddr, 5) = 0
    /\ ddrWrites[s] = 1
    /\ Len(log[s]) >= MaxObs
    /\ Bit(DDRB[s], 5) = 1

---------------------------------------------------------------------------
(* Claims about two devices started from the same register contents *)

Min(a, b) == IF a <= b THEN a ELSE b

IsDelay(e) == e.op = "delay"

\* what is seen on the pin: the level and the length of each hold
Holds(s) ==
  LET d == SelectSeq(log[s], IsDelay)
  IN  [i \in 1 .. Len(d) |-> <<d[i].pin, d[i].arg>>]

\* the other level
Inverse(h) == [i \in 1 .. Len(h) |-> <<1 - h[i][1], h[i][2]>>]

\* two sequences agree as far as both go
Agree(x, y) == \A i \in 1 .. Min(Len(x), Len(y)) : x[i] = y[i]

\* the programs that set and clear the bit, and those that invert it
SetClear == {"const_led", "define_LED", "ddrb_digitalWrite", "portb_set_clear"}

Inverting == {"portb_toggle", "toggle_delay_ms"} \cup MainPrograms

C5_SketchIsMain ==
  \A a \in Slots, b \in Slots :
    (prog[a] = "toggle_delay_ms" /\ prog[b] \in MainPrograms) =>
      /\ Agree(log[a], log[b])
      /\ \A i \in DOMAIN log[a] :
           /\ i = 1 => log[a][i].reg = "DDRB" /\ log[a][i].op = "|="
           /\ (i > 1 /\ i % 2 = 0) => log[a][i].reg = "PORTB" /\ log[a][i].op = "^="
           /\ (i > 1 /\ i % 2 = 1) => log[a][i].op = "delay" /\ log[a][i].arg = 1000
           /\ log[a][i].op # "delay" => log[a][i].arg = LedMask

\* reached: the sketch was through loop() twice, main() twice round its loop
C5_Witness ==
  /\ Slots = {1, 2}
  /\ prog[1] = "toggle_delay_ms" /\ prog[2] = "main_readme"
  /\ Len(log[1]) >= 5 /\ Len(log[2]) >= 5
  /\ pc[1].ph = "core" /\ pc[2].ph = "while"

\* C8: the main() that names the bit PB5 and the main() that writes 5 are
\* one program: the same writes with the mask 1 << 5 and the same delay of
\* 1000, and equal registers after equally many steps.
C8_PB5IsLiteral5 ==
  \A a \in Slots, b \in Slots :
    (prog[a] = "main_PB5" /\ prog[b] = "main_5") =>
      /\ Agree(log[a], log[b])
      /\ \A i \in DOMAIN log[a] :
           IF log[a][i].op = "delay" THEN log[a][i].arg = 1000
                                     ELSE log[a][i].arg = LedMask
      /\ (Len(log[a]) = Len(log[b]) /\ pc[a] = pc[b]) =>
           DDRB[a] = DDRB[b] /\ PORTB[a] = PORTB[b]

\* reached: both programs were watched to the end, from the LED bit set:
\* the first toggle cleared it, the second set it again
C8_Witness ==
  /\ Slots = {1, 2}
  /\ prog[1] = "main_PB5" /\ prog[2] = "main_5"
  /\ Len(log[1]) = MaxObs /\ Len(log[2]) = MaxObs
  /\ Bit(boot.port, 5) = 1
  /\ log[1][2].pin = 0 /\ log[2][4].pin = 1
  /\ DDRB[1] = DDRB[2] /\ PORTB[1] = PORTB[2]

============================================================================
